---- MODULE Spec2Model ----
(***************************************************************************)
(* Job-control and launch engine of MyShell (src/main.py): the Job Table,   *)
(* the dispatch loop (myshell / execute_command) for `jobs`, `fg`, `bg`,   *)
(* the `sleep` and `echo` built-ins, tokenization, pipelines, redirection, *)
(* background and foreground launch, and the SIGTSTP handler.  Child       *)
(* processes are opaque units scheduled by the OS.                         *)
(***************************************************************************)
EXTENDS Integers, Sequences, FiniteSets, TLC

\* ------------------------------------------------------------------ bounds
\* Number of child processes the session may launch.
MaxProcs == 2

\* ------------------------------------------------------- values and tokens
\* Python None for a process reference or a job id local.
None == 0
\* self.foreground_process before line 926 ever ran: the attribute is absent.
Unset == 0 - 1
\* Python None for self.foreground_command (a dispatched line is never empty).
NoCommand == << >>

Pids == 1 .. MaxProcs

\* Decimal tokens the user can type as a job id or a duration.
Digits == 0 .. 9
DigitTokens == { ToString(i) : i \in Digits }

\* str.isdigit() on the tokens of the model
IsDigit(tok) == tok \in DigitTokens

\* int(tok) for a token that passed isdigit()
ParseInt(tok) == CHOOSE i \in Digits : ToString(i) = tok

\* Programs the OS can launch; anything else raises FileNotFoundError.
\* /bin/sleep exists, but the shell's built-in of that name is found first.
Executables == { "prog", "sleep" }

\* Tokens whose last character is '&' (str.endswith('&') on the raw line).
AmpTokens == { "&", "arg&" }

RedirOps_NoTruncate == { ">>", "2>", "&>" }
RedirOps == { ">", ">>", "2>", "&>" }

\* Files that exist but cannot be executed: Popen raises PermissionError.
NotExecutable == { "denied" }

\* The files the redirections of the model name.
FileNames == { "out.txt", "err.txt" }

\* ------------------------------------------------------------ tokenization
\* The text read by input() is a sequence of characters; a run of ordinary
\* characters is kept as one element, a blank, a quote and a '|' stand alone.
Blank == " "
QuoteChars == { "\"", "'" }
NoQuote == ""

\* shlex.split(text) in POSIX mode: blanks separate tokens outside quotes, a
\* quote opens a run closed by the same quote, adjacent runs are one token,
\* and text that ends inside a quote raises ValueError (ok = FALSE).
RECURSIVE Scan(_, _, _, _, _, _)
Scan(text, i, cur, inTok, quote, acc) ==
    IF i > Len(text)
    THEN IF quote # NoQuote
         THEN [ ok |-> FALSE, tokens |-> << >> ]
         ELSE [ ok |-> TRUE,
                tokens |-> IF inTok THEN Append(acc, cur) ELSE acc ]
    ELSE LET c == text[i] IN
         IF quote # NoQuote
         THEN IF c = quote
              THEN Scan(text, i + 1, cur, TRUE, NoQuote, acc)
              ELSE Scan(text, i + 1, cur \o c, TRUE, quote, acc)
         ELSE IF c = Blank
              THEN Scan(text, i + 1, "", FALSE, NoQuote,
                        IF inTok THEN Append(acc, cur) ELSE acc)
              ELSE IF c \in QuoteChars
                   THEN Scan(text, i + 1, cur, TRUE, c, acc)
                   ELSE Scan(text, i + 1, cur \o c, TRUE, NoQuote, acc)

shlex_split(text) == Scan(text, 1, "", FALSE, NoQuote, << >>)

\* " ".join(tokens) as text: the tokens with one blank between neighbours
Words(tokens) ==
    IF tokens = << >> THEN << >>
    ELSE [ i \in 1 .. (2 * Len(tokens) - 1) |->
             IF i % 2 = 1 THEN tokens[(i + 1) \div 2] ELSE Blank ]

\* " ".join(tokens) as one string
RECURSIVE JoinBlank(_)
JoinBlank(tokens) ==
    IF tokens = << >> THEN ""
    ELSE IF Len(tokens) = 1 THEN tokens[1]
    ELSE tokens[1] \o Blank \o JoinBlank(Tail(tokens))

\* '|' in text
RawHasPipe(text) == \E i \in 1 .. Len(text) : text[i] = "|"

\* text.split('|'): every '|' cuts, quoted or not
RECURSIVE SplitPipe(_)
SplitPipe(text) ==
    IF ~RawHasPipe(text) THEN << text >>
    ELSE LET k == CHOOSE i \in 1 .. Len(text) :
                     /\ text[i] = "|"
                     /\ \A j \in 1 .. (i - 1) : text[j] # "|"
         IN  << SubSeq(text, 1, k - 1) >>
                 \o SplitPipe(SubSeq(text, k + 1, Len(text)))

\* A line typed without quotes, one blank between words: its text is its
\* tokens joined by blanks.
Plain(text) ==
    /\ shlex_split(text).ok
    /\ Words(shlex_split(text).tokens) = text

\* The command lines typed at the prompt, as shlex.split token sequences.
JobIdTokens == { "1", "2" }
Lines ==
    { <<"prog", "&">>, <<"prog", "arg", "&">>, <<"sleep", "5", "&">>,
      <<"nosuch", "&">>, <<"prog">>, <<"nosuch">>, <<"jobs">> }
    \cup { <<"fg", d>> : d \in JobIdTokens }
    \cup { <<"bg", d>> : d \in JobIdTokens }

\* The command lines of the launch engine, as typed text.
LaunchLines ==
    { Words(<<"prog">>),
      Words(<<"prog", ">", "out.txt">>),
      Words(<<"prog", "arg", ">>", "out.txt">>),
      Words(<<"prog", "&>", "out.txt", ">>">>),
      Words(<<"prog", ">", "out.txt", "2>", "err.txt">>),
      Words(<<"prog", ">">>),
      Words(<<"echo", "hi", ">">>),
      Words(<<"prog", "arg", ">", "out.txt", "&">>),
      Words(<<"nosuch", ">", "out.txt">>),
      Words(<<"denied", "2>", "out.txt">>),
      Words(<<"prog", ">", "out.txt", "&">>),
      Words(<<"prog", "&">>),
      Words(<<"prog", "arg&">>),
      Words(<<"nosuch", "&">>),
      Words(<<"denied", "&">>),
      Words(<<"prog", "|", "prog">>),
      Words(<<"prog", "|", "nosuch">>),
      Words(<<"echo", "hello", ">", "out.txt">>),
      Words(<<"echo", "world", ">>", "out.txt">>),
      <<"echo", " ", "\"", "a", " ", "b", "\"">>,
      <<"prog", " ", "\"", "a", "|", "b", "\"">>,
      <<"prog", " ", "\"", "arg">> }

\* Line 201, parts = shlex.split(command), for every line of the model.
Tokenized == [ text \in LaunchLines |-> shlex_split(text) ]

\* The token sequences of the lines typed without quotes.
LaunchTokenLines ==
    { shlex_split(text).tokens : text \in { t \in LaunchLines : Plain(t) } }

VARIABLES
    jobs,                \* self.jobs: job id -> [process, command, status]
    next_job_id,         \* self.next_job_id
    foreground_process,  \* self.foreground_process (Unset, None or a pid)
    foreground_command,  \* self.foreground_command
    proc,                \* OS state of every child: none/running/stopped/exited
    pc,                  \* where the control thread is
    process,             \* local `process` / job_info["process"] being waited on
    job_id,              \* local `job_id` of the background dispatch
    command,             \* local `command` of execute_command: its tokens,
                         \* or its text where the text decides
    items,               \* list(self.jobs.items()) of the running `jobs` loop
    listing,             \* lines printed by the current / last `jobs`
    prevListing,         \* lines printed by the `jobs` just before it
    consecutive,         \* the last two dispatched lines were both `jobs`
    msg,                 \* last message printed by the current / last dispatch
    sent,                \* signals the shell sent to children: <<pid, signal>>
    registered,          \* history: every Job registration, in order
    removed,             \* history: ids deleted from the table by jobs / fg
    start,               \* history: line, Job Table, next id and stopped
                         \* children when the current / last dispatch began
    sigAt,               \* history: pc at the last SIGTSTP of this dispatch
    sigChild,            \* history: child being waited on at that SIGTSTP
    typed,               \* history: cmd, the text of the current / last line
    files,               \* the file system: name -> lines of content
    handles,             \* files the shell holds open for a redirection
    io                   \* what each child was launched with

vars == << jobs, next_job_id, foreground_process, foreground_command, proc, pc,
           process, job_id, command, items, listing, prevListing, consecutive, msg,
           sent, registered, removed, start, sigAt, sigChild, typed, files,
           handles, io >>

\* The state of the launch engine that job control leaves alone.
launchVars == << files, handles, io >>

\* ----------------------------------------------------------------- helpers
command_name(parts) == parts[1]
args(parts) == Tail(parts)

\* command.endswith('&'): the raw line is the tokens joined by blanks
EndsWithAmp(parts) == parts[Len(parts)] \in AmpTokens

\* '|' in command
HasPipe(parts) == \E i \in 1 .. Len(parts) : parts[i] = "|"

\* Index of the first redirection operator, 0 when there is none.
FirstRedir(parts) ==
    IF \E i \in 1 .. Len(parts) : parts[i] \in RedirOps
    THEN CHOOSE i \in 1 .. Len(parts) :
            /\ parts[i] \in RedirOps
            /\ \A k \in 1 .. (i - 1) : parts[k] \notin RedirOps
    ELSE 0

\* The operator is the last token: "No file specified", nothing is launched.
MissingTarget(parts) == FirstRedir(parts) # 0 /\ FirstRedir(parts) = Len(parts)

\* command_parts: the tokens before the first redirection operator
CommandParts_All(parts) == parts
CommandParts(parts) ==
    IF FirstRedir(parts) = 0 THEN parts
    ELSE SubSeq(parts, 1, FirstRedir(parts) - 1)

\* command_parts[:-1]
DropLast(s) == IF s = << >> THEN << >> ELSE SubSeq(s, 1, Len(s) - 1)

\* bg_parts = shlex.split(" ".join(command_parts[:-1]).strip()); the tokens
\* of the model hold no blank and no quote, so the join and re-split keep them
BgParts(parts) == DropLast(CommandParts(parts))

\* Names of the built-in chain (lines 212-778) that the lines of the model
\* use; a built-in is matched by name before any pipe or redirection.
Builtins == { "jobs", "fg", "bg", "sleep", "echo" }

\* The token after the first redirection operator: the file it names.
RedirTarget(parts) == parts[FirstRedir(parts) + 1]

\* Mode of the open() call of each operator (lines 802, 809, 816, 823).
RedirMode(op) == IF op = ">>" THEN "a" ELSE "w"

\* open(name, mode): "w" creates or truncates, "a" creates or keeps
OpenFile(fs, name, mode) ==
    IF mode = "a" /\ name \in DOMAIN fs THEN fs
    ELSE [ x \in DOMAIN fs \cup { name } |-> IF x = name THEN << >> ELSE fs[x] ]

\* Lines 799-830: the file system after the scan opened its one target.
ScanFiles(fs, parts) ==
    IF FirstRedir(parts) = 0 THEN fs
    ELSE OpenFile(fs, RedirTarget(parts), RedirMode(parts[FirstRedir(parts)]))

\* The file objects the scan left in stdout_redirect / stderr_redirect.
ScanHandles(parts) ==
    IF FirstRedir(parts) = 0 THEN {} ELSE { RedirTarget(parts) }

\* stdout= and stderr= of subprocess.run (line 843)
StdoutOf(parts) ==
    IF FirstRedir(parts) # 0 /\ parts[FirstRedir(parts)] \in { ">", ">>", "&>" }
    THEN RedirTarget(parts) ELSE "inherit"
StderrOf(parts) ==
    IF FirstRedir(parts) # 0 /\ parts[FirstRedir(parts)] \in { "2>", "&>" }
    THEN RedirTarget(parts) ELSE "inherit"

\* Lines 848-852: the finally block closes what the scan opened.
Finally_Leak(open) == open
Finally(open) == {}

\* Lines 844-847: the message of the handler that catches a failed launch.
LaunchError(name) ==
    IF name \in NotExecutable THEN "Error executing command"
    ELSE "command not found"

\* A child that was never launched.
NoIo == [ argv |-> << >>, stdin |-> None, stdout |-> "none", stderr |-> "none",
          how |-> "none" ]

\* What a child writes on its standard output before it exits: one line.
ChildOutput(argv) == argv[1]

\* pid of the next process the OS creates
Launched == { p \in Pids : proc[p] # "none" }
NewPid == Cardinality(Launched) + 1

\* process.poll() is None: the child has not terminated (a stopped one has not)
PollIsNone(p) == proc[p] # "exited"

Alive == pc \notin { "crashed", "exited" }

\* dict without one key
RemoveKey(f, k) == [ x \in DOMAIN f \ { k } |-> f[x] ]

\* dict with one key set
SetKey(f, k, v) == [ x \in DOMAIN f \cup { k } |-> IF x = k THEN v ELSE f[x] ]

\* Keys of a dict in iteration (insertion) order.  A new key is always
\* next_job_id, which never decreases, so insertion order is ascending order.
RECURSIVE SortedKeys(_)
SortedKeys(S) ==
    IF S = {} THEN << >>
    ELSE LET m == CHOOSE x \in S : \A y \in S : x <= y
         IN  << m >> \o SortedKeys(S \ { m })

\* list(self.jobs.items())
ItemsOf(f) ==
    LET ks == SortedKeys(DOMAIN f)
    IN  [ i \in 1 .. Len(ks) |-> [ id |-> ks[i], info |-> f[ks[i]] ] ]

\* self.next_job_id += 1
IncrementJobId_Stuck(n) == n
IncrementJobId(n) == n + 1

TypeOK ==
    /\ DOMAIN jobs \subseteq 1 .. (MaxProcs + 1)
    /\ next_job_id \in 1 .. (MaxProcs + 2)
    /\ foreground_process \in { Unset, None } \cup Pids
    /\ proc \in [ Pids -> { "none", "running", "stopped", "exited" } ]
    /\ pc \in { "prompt", "bg_launched", "bg_idread", "bg_registered", "fg_run",
                "fg_wait", "jobs_iter", "sleeping", "pipe_wait", "crashed",
                "exited" }
    /\ DOMAIN files \subseteq FileNames
    /\ handles \subseteq DOMAIN files
    /\ DOMAIN io = Pids

Init ==
    /\ jobs = << >>
    /\ next_job_id = 1
    /\ foreground_process = Unset
    /\ foreground_command = NoCommand
    /\ proc = [ p \in Pids |-> "none" ]
    /\ pc = "prompt"
    /\ process = None
    /\ job_id = None
    /\ command = NoCommand
    /\ items = << >>
    /\ listing = << >>
    /\ prevListing = << >>
    /\ consecutive = FALSE
    /\ msg = ""
    /\ sent = {}
    /\ registered = << >>
    /\ removed = {}
    /\ start = [ line |-> NoCommand, jobs |-> << >>, next_job_id |-> 1,
                 stopped |-> {}, files |-> << >>, launched |-> {} ]
    /\ sigAt = "none"
    /\ sigChild = None
    /\ typed = NoCommand
    /\ files = << >>
    /\ handles = {}
    /\ io = [ p \in Pids |-> NoIo ]

\* The line dispatched just before was `jobs` too.
PreviousWasJobs == start.line # NoCommand /\ command_name(start.line) = "jobs"

\* Lines 914 and 922 and the entry of execute_command: what every dispatch
\* begins with.  `line` is NoCommand when the text cannot be tokenized.
BeginTyped(line, text) ==
    /\ pc = "prompt"
    /\ typed' = text
    /\ start' = [ line |-> line, jobs |-> jobs, next_job_id |-> next_job_id,
                  stopped |-> { p \in Pids : proc[p] = "stopped" },
                  files |-> files, launched |-> Launched ]
    /\ sigAt' = "none"
    /\ sigChild' = None
    /\ IF line # NoCommand /\ command_name(line) = "jobs"
       THEN /\ prevListing' = IF PreviousWasJobs THEN listing ELSE << >>
            /\ consecutive' = PreviousWasJobs
       ELSE /\ prevListing' = << >>
            /\ consecutive' = FALSE
    /\ listing' = << >>

\* A line typed without quotes, given by its tokens.
Begin(line) == BeginTyped(line, Words(line))

\* Lines 926-927: execute_command returned to myshell.
Return ==
    /\ pc' = "prompt"
    /\ foreground_process' = None
    /\ foreground_command' = NoCommand
    /\ command' = NoCommand

\* A single-stage line that reaches the launch code of lines 794-852.
External(line) ==
    /\ command_name(line) \notin Builtins
    /\ ~HasPipe(line)
    /\ ~MissingTarget(line)

\* What the launch of line 837 leaves in self.foreground_process: the Popen
\* handle is bound to the local `process` only.
ForegroundAfterLaunch_Tracked(old, p) == p
ForegroundAfterLaunch(old, p) == old

\* ---------------------------------------------------- background dispatch
\* Lines 833-837: the line ends with '&' and Popen(bg_parts) succeeds.
BgLaunch(line) ==
    /\ Begin(line)
    /\ External(line)
    /\ EndsWithAmp(line)
    /\ BgParts(line) # << >>
    /\ BgParts(line)[1] \in Executables
    /\ NewPid \in Pids
    /\ proc' = [ proc EXCEPT ![NewPid] = "running" ]
    /\ process' = NewPid
    /\ pc' = "bg_launched"
    /\ foreground_command' = line
    /\ command' = line
    /\ foreground_process' = ForegroundAfterLaunch(foreground_process, NewPid)
    /\ msg' = ""
    /\ UNCHANGED << jobs, next_job_id, job_id, items, sent, registered,
                    removed >>
    /\ files' = ScanFiles(files, line)
    /\ handles' = ScanHandles(line)
    /\ io' = [ io EXCEPT ![NewPid] =
                 [ argv |-> BgParts(line), stdin |-> None, stdout |-> "PIPE",
                   stderr |-> "PIPE", how |-> "Popen" ] ]

\* Line 838: job_id = self.next_job_id
BgReadId ==
    /\ pc = "bg_launched"
    /\ job_id' = next_job_id
    /\ pc' = "bg_idread"
    /\ UNCHANGED << jobs, next_job_id, foreground_process, foreground_command,
                    proc, process, command, items, listing, prevListing,
                    consecutive, msg, sent, registered, removed, start, sigAt,
                    sigChild >>
    /\ UNCHANGED << typed, files, handles, io >>

\* Lines 839-840: self.jobs[job_id] = {...}; print
BgRegister ==
    /\ pc = "bg_idread"
    /\ jobs' = SetKey(jobs, job_id,
                      [ process |-> process, command |-> BgParts(command),
                        status |-> "running" ])
    /\ registered' = Append(registered,
                            [ id |-> job_id, process |-> process,
                              by |-> "background" ])
    /\ msg' = "[id] command &"
    /\ pc' = "bg_registered"
    /\ UNCHANGED << next_job_id, foreground_process, foreground_command, proc,
                    process, job_id, command, items, listing, prevListing,
                    consecutive, sent, removed, start, sigAt, sigChild >>
    /\ UNCHANGED << typed, files, handles, io >>

\* Line 841, the finally block, the return and lines 926-927.
BgIncrement ==
    /\ pc = "bg_registered"
    /\ next_job_id' = IncrementJobId(next_job_id)
    /\ process' = None
    /\ job_id' = None
    /\ Return
    /\ UNCHANGED << jobs, proc, items, listing, prevListing, consecutive, msg,
                    sent, registered, removed, start, sigAt, sigChild >>
    /\ handles' = Finally(handles)
    /\ UNCHANGED << typed, files, io >>

\* self.next_job_id after a background dispatch that launched nothing: the
\* exception of line 837, or the false `if bg_parts`, skips lines 838-841.
JobIdAfterFailure_Consumed(n) == n + 1
JobIdAfterFailure(n) == n

\* Lines 833-836 and 844-852: nothing is left after stripping, or Popen
\* raises FileNotFoundError or another Exception; no Job is registered.
BgNoLaunch(line) ==
    /\ Begin(line)
    /\ External(line)
    /\ EndsWithAmp(line)
    /\ IF BgParts(line) = << >>
       THEN msg' = ""
       ELSE /\ BgParts(line)[1] \notin Executables
            /\ msg' = LaunchError(BgParts(line)[1])
    /\ Return
    /\ next_job_id' = JobIdAfterFailure(next_job_id)
    /\ UNCHANGED << jobs, proc, process, job_id, items, sent, registered,
                    removed >>
    /\ files' = ScanFiles(files, line)
    /\ handles' = Finally(ScanHandles(line))
    /\ UNCHANGED io

\* ---------------------------------------------------- foreground dispatch
\* Lines 794-843: the scan opened the target of the first redirection
\* operator, subprocess.run(command_parts) started the child and blocks in
\* its wait; self.foreground_process is not assigned.
FgLaunch(line) ==
    /\ Begin(line)
    /\ External(line)
    /\ ~EndsWithAmp(line)
    /\ CommandParts(line) # << >>
    /\ CommandParts(line)[1] \in Executables
    /\ NewPid \in Pids
    /\ proc' = [ proc EXCEPT ![NewPid] = "running" ]
    /\ process' = NewPid
    /\ pc' = "fg_run"
    /\ foreground_command' = line
    /\ command' = line
    /\ msg' = ""
    /\ UNCHANGED << jobs, next_job_id, foreground_process, job_id, items,
                    sent, registered, removed >>
    /\ files' = ScanFiles(files, line)
    /\ handles' = ScanHandles(line)
    /\ io' = [ io EXCEPT ![NewPid] =
                 [ argv |-> CommandParts(line), stdin |-> None,
                   stdout |-> StdoutOf(line), stderr |-> StderrOf(line),
                   how |-> "run" ] ]

\* Lines 794-852: subprocess.run raises FileNotFoundError or another
\* Exception; the handler prints a message and finally closes the target.
FgLaunchFail(line) ==
    /\ Begin(line)
    /\ External(line)
    /\ ~EndsWithAmp(line)
    /\ CommandParts(line) # << >>
    /\ CommandParts(line)[1] \notin Executables
    /\ msg' = LaunchError(CommandParts(line)[1])
    /\ Return
    /\ UNCHANGED << jobs, next_job_id, proc, process, job_id, items, sent,
                    registered, removed >>
    /\ files' = ScanFiles(files, line)
    /\ handles' = Finally(ScanHandles(line))
    /\ UNCHANGED io

\* subprocess.run returns when the child has exited; finally, return, 926-927.
FgRunDone ==
    /\ pc = "fg_run"
    /\ proc[process] = "exited"
    /\ process' = None
    /\ Return
    /\ UNCHANGED << jobs, next_job_id, proc, job_id, items, listing,
                    prevListing, consecutive, msg, sent, registered, removed,
                    start, sigAt, sigChild >>
    /\ handles' = Finally(handles)
    /\ UNCHANGED << typed, files, io >>

\* ------------------------------------------------------- sleep (561-569)
SleepBuiltin(line) ==
    /\ Begin(line)
    /\ command_name(line) = "sleep"
    /\ IF args(line) # << >> /\ IsDigit(args(line)[1])
       THEN /\ pc' = "sleeping"
            /\ foreground_command' = line
            /\ command' = line
            /\ msg' = ""
            /\ UNCHANGED foreground_process
       ELSE /\ msg' = "Usage: sleep <seconds>"
            /\ Return
    /\ UNCHANGED << jobs, next_job_id, proc, process, job_id, items, sent,
                    registered, removed >>
    /\ UNCHANGED launchVars

\* time.sleep returned
SleepDone ==
    /\ pc = "sleeping"
    /\ Return
    /\ UNCHANGED << jobs, next_job_id, proc, process, job_id, items, listing,
                    prevListing, consecutive, msg, sent, registered, removed,
                    start, sigAt, sigChild >>
    /\ UNCHANGED << typed, files, handles, io >>

\* -------------------------------------------------------- jobs (261-267)
\* status = "Running" if job_info["process"].poll() is None else "Done"
JobStatus_Inverted(pollIsNone) == IF pollIsNone THEN "Done" ELSE "Running"
JobStatus(pollIsNone) == IF pollIsNone THEN "Running" ELSE "Done"

\* if status == "Done": del self.jobs[job_id]
ReapOnListing_Always(status) == TRUE
ReapOnListing(status) == status = "Done"

\* Line 262: the list of items is taken once, before the loop.
JobsStart(line) ==
    /\ Begin(line)
    /\ command_name(line) = "jobs"
    /\ items' = ItemsOf(jobs)
    /\ pc' = "jobs_iter"
    /\ foreground_command' = line
    /\ command' = line
    /\ msg' = ""
    /\ UNCHANGED << jobs, next_job_id, foreground_process, proc, process,
                    job_id, sent, registered, removed >>
    /\ UNCHANGED launchVars

\* Lines 263-266: one iteration of the loop.
JobsStep ==
    /\ pc = "jobs_iter"
    /\ items # << >>
    /\ LET it == Head(items)
           status == JobStatus(PollIsNone(it.info.process))
       IN  /\ listing' = Append(listing,
                                [ id |-> it.id, status |-> status,
                                  command |-> it.info.command ])
           /\ IF ReapOnListing(status)
              THEN /\ jobs' = RemoveKey(jobs, it.id)
                   /\ removed' = removed \cup { it.id }
              ELSE UNCHANGED << jobs, removed >>
    /\ items' = Tail(items)
    /\ UNCHANGED << next_job_id, foreground_process, foreground_command, proc,
                    pc, process, job_id, command, prevListing, consecutive, msg,
                    sent, registered, start, sigAt, sigChild >>
    /\ UNCHANGED << typed, files, handles, io >>

\* Line 267 and lines 926-927.
JobsEnd ==
    /\ pc = "jobs_iter"
    /\ items = << >>
    /\ Return
    /\ UNCHANGED << jobs, next_job_id, proc, process, job_id, items, listing,
                    prevListing, consecutive, msg, sent, registered, removed,
                    start, sigAt, sigChild >>
    /\ UNCHANGED << typed, files, handles, io >>

\* ---------------------------------------------------------- fg (268-284)
\* job_info = self.jobs.pop(job_id)
FgPop_Keep(f, k) == f
FgPop(f, k) == RemoveKey(f, k)

\* Lines 269-275: the job exists; it is popped and the loop blocks in wait().
FgResume(line) ==
    /\ Begin(line)
    /\ command_name(line) = "fg"
    /\ args(line) # << >>
    /\ IsDigit(args(line)[1])
    /\ ParseInt(args(line)[1]) \in DOMAIN jobs
    /\ LET id == ParseInt(args(line)[1])
       IN  /\ process' = jobs[id].process
           /\ jobs' = FgPop(jobs, id)
           /\ removed' = removed \cup { id }
    /\ msg' = "command"
    /\ pc' = "fg_wait"
    /\ foreground_command' = line
    /\ command' = line
    /\ UNCHANGED << next_job_id, foreground_process, proc, job_id, items,
                    sent, registered >>
    /\ UNCHANGED launchVars

\* Lines 279-284: unknown id, or no numeric argument.
FgReject(line) ==
    /\ Begin(line)
    /\ command_name(line) = "fg"
    /\ IF args(line) # << >> /\ IsDigit(args(line)[1])
       THEN /\ ParseInt(args(line)[1]) \notin DOMAIN jobs
            /\ msg' = "fg: job not found"
       ELSE msg' = "Usage: fg [job_id]"
    /\ Return
    /\ UNCHANGED << jobs, next_job_id, proc, process, job_id, items, sent,
                    registered, removed >>
    /\ UNCHANGED launchVars

\* Line 275 returns: the child has exited.
FgWaitDone ==
    /\ pc = "fg_wait"
    /\ proc[process] = "exited"
    /\ process' = None
    /\ Return
    /\ UNCHANGED << jobs, next_job_id, proc, job_id, items, listing,
                    prevListing, consecutive, msg, sent, registered, removed,
                    start, sigAt, sigChild >>
    /\ UNCHANGED << typed, files, handles, io >>

\* Lines 276-278: KeyboardInterrupt during the wait is caught; "^C"; return.
FgInterrupt ==
    /\ pc = "fg_wait"
    /\ msg' = "^C"
    /\ process' = None
    /\ Return
    /\ UNCHANGED << jobs, next_job_id, proc, job_id, items, listing,
                    prevListing, consecutive, sent, registered, removed, start,
                    sigAt, sigChild >>
    /\ UNCHANGED << typed, files, handles, io >>

\* ---------------------------------------------------------- bg (285-301)
\* Line 288 reads the local job_info, which no statement of the bg branch
\* assigns (it is bound only in the jobs loop and in the fg branch): when
\* job_id is in self.jobs the second conjunct raises UnboundLocalError.  No
\* handler encloses line 925, so the exception ends the session.  Lines
\* 289-295 are never reached.
BgBuiltin(line) ==
    /\ Begin(line)
    /\ command_name(line) = "bg"
    /\ IF args(line) # << >> /\ IsDigit(args(line)[1])
       THEN IF ParseInt(args(line)[1]) \in DOMAIN jobs
            THEN /\ pc' = "crashed"
                 /\ foreground_command' = line
                 /\ command' = line
                 /\ msg' = "UnboundLocalError"
                 /\ UNCHANGED foreground_process
            ELSE /\ msg' = "bg: job not found"
                 /\ Return
       ELSE /\ msg' = "Usage: bg [job_id]"
            /\ Return
    /\ UNCHANGED << jobs, next_job_id, proc, process, job_id, items, sent,
                    registered, removed >>
    /\ UNCHANGED launchVars

\* ------------------------------------------------- signals (854-864, 909-920)
\* Line 856: hasattr(self, 'foreground_process') and self.foreground_process
HandlerTracks == foreground_process \notin { Unset, None }

\* SIGTSTP reaches the shell; the handler runs in the control thread between
\* two of its steps.  From the terminal the signal also reaches the children
\* sharing the shell's process group: any set S of running children stops.
SuspendSignal(S) ==
    /\ Alive
    /\ S \subseteq { p \in Pids : proc[p] = "running" }
    /\ sigAt' = IF pc = "prompt" THEN sigAt ELSE pc
    /\ sigChild' = IF pc = "prompt" THEN sigChild
                   ELSE IF pc \in { "fg_run", "fg_wait" } THEN process ELSE None
    /\ IF HandlerTracks
       THEN /\ sent' = sent \cup { << foreground_process, "SIGTSTP" >> }
            /\ proc' = [ p \in Pids |->
                           IF proc[p] = "running"
                              /\ (p \in S \/ p = foreground_process)
                           THEN "stopped" ELSE proc[p] ]
            /\ jobs' = SetKey(jobs, next_job_id,
                              [ process |-> foreground_process,
                                command |-> foreground_command,
                                status |-> "suspended" ])
            /\ registered' = Append(registered,
                                    [ id |-> next_job_id,
                                      process |-> foreground_process,
                                      by |-> "handler" ])
            /\ next_job_id' = next_job_id + 1
            /\ foreground_process' = None
            /\ foreground_command' = NoCommand
       ELSE /\ proc' = [ p \in Pids |-> IF p \in S THEN "stopped" ELSE proc[p] ]
            /\ UNCHANGED << sent, jobs, registered, next_job_id,
                            foreground_process, foreground_command >>
    /\ UNCHANGED << pc, process, job_id, command, items, listing, prevListing,
                    consecutive, msg, removed, start >>
    /\ UNCHANGED << typed, files, handles, io >>

\* Lines 918-920: KeyboardInterrupt while blocked in input() re-prompts.
InterruptPrompt ==
    /\ pc = "prompt"
    /\ UNCHANGED vars

\* KeyboardInterrupt anywhere else in execute_command: `except Exception` does
\* not catch it and line 925 has no handler, so the session ends.  Inside
\* subprocess.run the child is killed before the exception is re-raised.
InterruptFatal ==
    /\ pc \in { "fg_run", "sleeping", "bg_launched", "bg_idread",
                "bg_registered", "jobs_iter", "pipe_wait" }
    /\ pc' = "crashed"
    /\ msg' = "KeyboardInterrupt"
    /\ IF pc = "fg_run"
       THEN /\ proc' = [ proc EXCEPT ![process] = "exited" ]
            /\ sent' = sent \cup { << process, "SIGKILL" >> }
       ELSE UNCHANGED << proc, sent >>
    /\ UNCHANGED << jobs, next_job_id, foreground_process, foreground_command,
                    process, job_id, command, items, listing, prevListing,
                    consecutive, registered, removed, start, sigAt, sigChild >>
    /\ handles' = Finally(handles)
    /\ UNCHANGED << typed, files, io >>

\* Lines 915-917: end of input ends the session; the shell's memory, and the
\* record kept of it here, goes with the process.
Eof ==
    /\ pc = "prompt"
    /\ pc' = "exited"
    /\ msg' = "Exiting..."
    /\ jobs' = << >>
    /\ next_job_id' = 1
    /\ foreground_process' = Unset
    /\ registered' = << >>
    /\ removed' = {}
    /\ listing' = << >>
    /\ prevListing' = << >>
    /\ consecutive' = FALSE
    /\ start' = [ line |-> NoCommand, jobs |-> << >>, next_job_id |-> 1,
                  stopped |-> {}, files |-> << >>, launched |-> {} ]
    /\ sigAt' = "none"
    /\ sigChild' = None
    /\ UNCHANGED << foreground_command, proc, process, job_id, command, items,
                    sent >>
    /\ typed' = NoCommand
    /\ handles' = {}
    /\ UNCHANGED << files, io >>

\* A running child terminates on its own schedule.
ProcExit(p) ==
    /\ Alive
    /\ proc[p] = "running"
    /\ proc' = [ proc EXCEPT ![p] = "exited" ]
    /\ UNCHANGED << jobs, next_job_id, foreground_process, foreground_command,
                    pc, process, job_id, command, items, listing, prevListing,
                    consecutive, msg, sent, registered, removed, start, sigAt,
                    sigChild >>
    /\ files' = IF io[p].stdout \in DOMAIN files
                THEN [ files EXCEPT ![io[p].stdout] =
                         Append(@, ChildOutput(io[p].argv)) ]
                ELSE files
    /\ UNCHANGED << typed, handles, io >>

Next ==
    \/ \E line \in Lines : BgLaunch(line)
    \/ BgReadId
    \/ BgRegister
    \/ BgIncrement
    \/ \E line \in Lines : BgNoLaunch(line)
    \/ \E line \in Lines : FgLaunch(line)
    \/ \E line \in Lines : FgLaunchFail(line)
    \/ FgRunDone
    \/ \E line \in Lines : SleepBuiltin(line)
    \/ SleepDone
    \/ \E line \in Lines : JobsStart(line)
    \/ JobsStep
    \/ JobsEnd
    \/ \E line \in Lines : FgResume(line)
    \/ \E line \in Lines : FgReject(line)
    \/ FgWaitDone
    \/ FgInterrupt
    \/ \E line \in Lines : BgBuiltin(line)
    \/ \E S \in SUBSET Pids : SuspendSignal(S)
    \/ InterruptPrompt
    \/ InterruptFatal
    \/ Eof
    \/ \E p \in Pids : ProcExit(p)

Spec == Init /\ [][Next]_vars

\* ------------------------------------------------------------ launch engine
\* Line 201: shlex.split(command) raises ValueError.  Nothing encloses the
\* call and line 925 has no handler, so the exception ends the session.
TokenizeCrash(text) ==
    /\ BeginTyped(NoCommand, text)
    /\ ~Tokenized[text].ok
    /\ pc' = "crashed"
    /\ msg' = "ValueError"
    /\ foreground_command' = text
    /\ command' = text
    /\ UNCHANGED << jobs, next_job_id, foreground_process, proc, process,
                    job_id, items, sent, registered, removed >>
    /\ UNCHANGED launchVars

\* Lines 332-334: echo is matched by name before any pipe or redirection is
\* looked at; it prints its arguments joined by blanks and returns.
EchoBuiltin(text) ==
    /\ pc = "prompt"
    /\ Tokenized[text].ok
    /\ Tokenized[text].tokens # << >>
    /\ LET parts == Tokenized[text].tokens
       IN  /\ BeginTyped(parts, text)
           /\ command_name(parts) = "echo"
           /\ msg' = JoinBlank(args(parts))
    /\ Return
    /\ UNCHANGED << jobs, next_job_id, proc, process, job_id, items, sent,
                    registered, removed >>
    /\ UNCHANGED launchVars

\* Line 782: the text holds a '|' and its first token names no built-in.
ReachesPipeline(text) ==
    /\ Tokenized[text].ok
    /\ Tokenized[text].tokens # << >>
    /\ command_name(Tokenized[text].tokens) \notin Builtins
    /\ RawHasPipe(text)

\* Line 783: pipes = [shlex.split(p) for p in command.split('|')]
SplitStages(text) ==
    [ i \in 1 .. Len(SplitPipe(text)) |-> shlex_split(SplitPipe(text)[i]) ]
PipesTable == [ text \in LaunchLines |-> SplitStages(text) ]
Pipes(text) == PipesTable[text]
PipesOk(text) == \A i \in 1 .. Len(Pipes(text)) : Pipes(text)[i].ok

\* Popen(cmd_parts) succeeds
CanLaunch(argv) == argv # << >> /\ argv[1] \in Executables

\* Index of the first stage whose Popen raises, 0 when every stage launches.
FirstFailure(pipes) ==
    IF \E i \in 1 .. Len(pipes) : ~CanLaunch(pipes[i].tokens)
    THEN CHOOSE i \in 1 .. Len(pipes) :
            /\ ~CanLaunch(pipes[i].tokens)
            /\ \A k \in 1 .. (i - 1) : CanLaunch(pipes[k].tokens)
    ELSE 0

\* Lines 786-787: stage i of n, the first stage getting pid `first`.  Its
\* stdin is the stdout pipe of the stage before it (named by that pid).
StageStdout(i, n) == IF i < n THEN "PIPE" ELSE "inherit"
StageIo(pipes, i, first) ==
    [ argv |-> pipes[i].tokens,
      stdin |-> IF i = 1 THEN None ELSE first + i - 2,
      stdout |-> StageStdout(i, Len(pipes)),
      stderr |-> "inherit",
      how |-> "stage" ]

\* Lines 785-790 for the first k stages.
LaunchStages(pipes, k) ==
    /\ NewPid + k - 1 <= MaxProcs
    /\ proc' = [ p \in Pids |->
                   IF p \in NewPid .. (NewPid + k - 1) THEN "running"
                   ELSE proc[p] ]
    /\ io' = [ p \in Pids |->
                 IF p \in NewPid .. (NewPid + k - 1)
                 THEN StageIo(pipes, p - NewPid + 1, NewPid)
                 ELSE io[p] ]
    /\ process' = IF k = 0 THEN None ELSE NewPid + k - 1

\* Lines 782-792: every stage is launched, left to right; the loop then
\* blocks in process.wait() on the last one.
PipelineLaunch(text) ==
    /\ pc = "prompt"
    /\ ReachesPipeline(text)
    /\ BeginTyped(Tokenized[text].tokens, text)
    /\ PipesOk(text)
    /\ FirstFailure(Pipes(text)) = 0
    /\ LaunchStages(Pipes(text), Len(Pipes(text)))
    /\ pc' = "pipe_wait"
    /\ foreground_command' = text
    /\ command' = text
    /\ msg' = ""
    /\ UNCHANGED << jobs, next_job_id, foreground_process, job_id, items,
                    sent, registered, removed, files, handles >>

\* Lines 783 and 787 stand in no try block: a ValueError of a stage's
\* shlex.split, or the exception of a stage's Popen, ends the session.  The
\* stages launched before the failing one keep running.
PipelineCrash(text) ==
    /\ pc = "prompt"
    /\ ReachesPipeline(text)
    /\ BeginTyped(Tokenized[text].tokens, text)
    /\ IF ~PipesOk(text)
       THEN /\ msg' = "ValueError"
            /\ UNCHANGED << proc, io, process >>
       ELSE /\ FirstFailure(Pipes(text)) # 0
            /\ LaunchStages(Pipes(text), FirstFailure(Pipes(text)) - 1)
            /\ msg' = "FileNotFoundError"
    /\ pc' = "crashed"
    /\ foreground_command' = text
    /\ command' = text
    /\ UNCHANGED << jobs, next_job_id, foreground_process, job_id, items,
                    sent, registered, removed, files, handles >>

\* Lines 791-792 return: the last stage has exited.  Lines 926-927.
PipelineDone ==
    /\ pc = "pipe_wait"
    /\ proc[process] = "exited"
    /\ process' = None
    /\ Return
    /\ UNCHANGED << jobs, next_job_id, proc, job_id, items, listing,
                    prevListing, consecutive, msg, sent, registered, removed,
                    start, sigAt, sigChild, typed, files, handles, io >>

\* Lines 801-828, the else branches: the first operator is the last token.
RedirMissing(line) ==
    /\ Begin(line)
    /\ command_name(line) \notin Builtins
    /\ ~HasPipe(line)
    /\ MissingTarget(line)
    /\ msg' = "Error: No file specified"
    /\ Return
    /\ UNCHANGED << jobs, next_job_id, proc, process, job_id, items, sent,
                    registered, removed >>
    /\ UNCHANGED launchVars

NextLaunch ==
    \/ \E text \in LaunchLines : TokenizeCrash(text)
    \/ \E text \in LaunchLines : EchoBuiltin(text)
    \/ \E text \in LaunchLines : PipelineLaunch(text)
    \/ \E text \in LaunchLines : PipelineCrash(text)
    \/ PipelineDone
    \/ \E line \in LaunchTokenLines : RedirMissing(line)
    \/ \E line \in LaunchTokenLines : FgLaunch(line)
    \/ \E line \in LaunchTokenLines : FgLaunchFail(line)
    \/ FgRunDone
    \/ \E line \in LaunchTokenLines : BgLaunch(line)
    \/ BgReadId
    \/ BgRegister
    \/ BgIncrement
    \/ \E line \in LaunchTokenLines : BgNoLaunch(line)
    \/ \E S \in SUBSET Pids : SuspendSignal(S)
    \/ InterruptPrompt
    \/ InterruptFatal
    \/ Eof
    \/ \E p \in Pids : ProcExit(p)

\* The session typing the lines of the launch engine.
SpecLaunch == Init /\ [][NextLaunch]_vars

\* ======================================================================
\* Properties
\* ======================================================================

\* The control thread is not between the registration of line 839 and the
\* increment of line 841, and the session has not ended.
AtRest ==
    pc \in { "prompt", "bg_launched", "bg_idread", "fg_run", "fg_wait",
             "jobs_iter", "sleeping" }

\* The process registered under a job id.
ProcessOf(id) ==
    registered[CHOOSE i \in 1 .. Len(registered) : registered[i].id = id].process

\* ---------------------------------------------------------------- C1
\* C1: job ids are unique and strictly increasing over the session: the i-th
\* Job ever registered has id i (so no id is given twice, also after its job
\* was removed by `jobs` or `fg`), and between dispatch steps every id in the
\* Job Table is smaller than the next id to be assigned, which is the number
\* of registrations so far plus 1.
Thm_C1_JobIdsIncrease ==
    /\ \A i \in 1 .. Len(registered) : registered[i].id = i
    /\ AtRest => /\ \A id \in DOMAIN jobs : id < next_job_id
                 /\ next_job_id = Len(registered) + 1

\* A second Job has just been registered under id 2 after job 1 was removed.
Wit_C1_IdAfterRemoval ==
    /\ pc = "bg_registered"
    /\ Len(registered) = 2
    /\ registered[2].id = 2
    /\ 1 \in removed
    /\ DOMAIN jobs = { 2 }

\* ---------------------------------------------------------------- C2
\* C2: the dispatch of a single-stage line whose last token is `&` and whose
\* program exists (`sleep 5 &`) never blocks, and when it has returned to the
\* prompt exactly one new Job, Running, is in the table under the id that was
\* next when the dispatch began.
TrailingAmp(line) ==
    /\ line # NoCommand
    /\ ~HasPipe(line)
    /\ Len(line) > 1
    /\ line[Len(line)] = "&"
    /\ line[1] \in Executables

CE_C2_BackgroundNeverBlocks ==
    TrailingAmp(start.line) =>
        /\ pc # "sleeping"
        /\ pc = "prompt" =>
              /\ DOMAIN jobs = DOMAIN start.jobs \cup { start.next_job_id }
              /\ start.next_job_id \notin DOMAIN start.jobs
              /\ \A id \in DOMAIN start.jobs : jobs[id] = start.jobs[id]
              /\ jobs[start.next_job_id].status = "running"
              /\ next_job_id = start.next_job_id + 1

\* ---------------------------------------------------------------- C3
\* C3: when SIGTSTP arrived while the loop was blocked on a foreground child,
\* the handler has forwarded the signal to the child, the child is a Job with
\* status suspended and the original command text, and the current-foreground
\* reference is cleared.
CE_C3_SuspendRegistersJob ==
    sigAt = "fg_run" =>
        /\ << sigChild, "SIGTSTP" >> \in sent
        /\ \E id \in DOMAIN jobs :
              /\ jobs[id].process = sigChild
              /\ jobs[id].status = "suspended"
              /\ jobs[id].command = start.line
        /\ foreground_process = None

\* ------------------------------------------------------------ C4, C5
\* The job `bg <id>` names, for a dispatched line <<"bg", id>>.
IsBgLine(line) == line # NoCommand /\ Len(line) = 2 /\ line[1] = "bg" /\ IsDigit(line[2])
BgId == ParseInt(start.line[2])

\* The job was suspended when the dispatch began: its status says so, or its
\* process was stopped by the suspend signal (the handler is the only code
\* that sets the status, and it registers nothing: C3).
SuspendedAtStart(id) ==
    /\ id \in DOMAIN start.jobs
    /\ \/ start.jobs[id].status = "suspended"
       \/ start.jobs[id].process \in start.stopped

\* C4: `bg <id>` on a Job that is in the table and Suspended sends its process
\* SIGCONT, sets its status to running and leaves it in the table under the
\* same id.
CE_C4_BgResumesSuspended ==
    (IsBgLine(start.line) /\ SuspendedAtStart(BgId)) =>
        /\ << start.jobs[BgId].process, "SIGCONT" >> \in sent
        /\ BgId \in DOMAIN jobs
        /\ jobs[BgId].process = start.jobs[BgId].process
        /\ jobs[BgId].status = "running"

\* C5: `bg <id>` on an id that is not in the table, or on a job that is not
\* Suspended, only reports an error: table, statuses and next id are as they
\* were, no signal is sent, and the session goes on to the next prompt.
CE_C5_BgErrorIsNoOp ==
    (IsBgLine(start.line) /\ ~SuspendedAtStart(BgId)) =>
        /\ pc # "crashed"
        /\ jobs = start.jobs
        /\ next_job_id = start.next_job_id
        /\ sent = {}

\* ---------------------------------------------------------------- C6
IsFgLine(line) == line # NoCommand /\ Len(line) = 2 /\ line[1] = "fg" /\ IsDigit(line[2])
FgId == ParseInt(start.line[2])

\* C6: `fg <id>` for an id in the table removes exactly that job (other jobs
\* and the next id unchanged) and blocks on its process until it exits; an
\* interrupt during the wait is reported as ^C and leads back to the prompt,
\* never out of the session.  For an id not in the table it reports
\* 'job not found' and changes nothing.
Thm_C6_FgRemovesAndWaits ==
    IsFgLine(start.line) =>
        IF FgId \in DOMAIN start.jobs
        THEN /\ pc \in { "fg_wait", "prompt" }
             /\ jobs = RemoveKey(start.jobs, FgId)
             /\ next_job_id = start.next_job_id
             /\ pc = "fg_wait" => process = start.jobs[FgId].process
             /\ pc = "prompt" => \/ proc[start.jobs[FgId].process] = "exited"
                                 \/ msg = "^C"
        ELSE /\ pc = "prompt"
             /\ msg = "fg: job not found"
             /\ jobs = start.jobs
             /\ next_job_id = start.next_job_id

\* `fg 1` was interrupted: back at the prompt with ^C, job 1 gone, job 2 kept,
\* the process of job 1 still running.
Wit_C6_FgInterrupted ==
    /\ pc = "prompt"
    /\ start.line = <<"fg", "1">>
    /\ DOMAIN start.jobs = { 1, 2 }
    /\ msg = "^C"
    /\ DOMAIN jobs = { 2 }
    /\ proc[start.jobs[1].process] = "running"

\* ---------------------------------------------------------------- C7
\* C7: whenever the shell is at the prompt, a process that was registered as a
\* Job and has not exited is still in the Job Table (in particular after an
\* `fg` wait cut short by an interrupt).
CE_C7_LiveJobStaysTracked ==
    pc = "prompt" =>
        \A i \in 1 .. Len(registered) :
            proc[registered[i].process] # "exited" =>
                \E id \in DOMAIN jobs : jobs[id].process = registered[i].process

\* ---------------------------------------------------------------- C8
IsJobsLine(line) == line # NoCommand /\ line[1] = "jobs"

\* Ids the current / last `jobs` reported Done.
ReportedDone == { listing[k].id : k \in { n \in 1 .. Len(listing) : listing[n].status = "Done" } }

\* What `jobs` has printed and done so far is right.
JobsListingSound ==
    IsJobsLine(start.line) /\ pc \in { "jobs_iter", "prompt" } =>
        /\ next_job_id = start.next_job_id
        /\ Len(listing) + Len(items) = Cardinality(DOMAIN start.jobs)
        /\ \A k \in 1 .. Len(listing) :
              /\ listing[k].id = ItemsOf(start.jobs)[k].id
              /\ listing[k].command = start.jobs[listing[k].id].command
              /\ listing[k].status \in { "Running", "Done" }
              /\ listing[k].status = "Done" =>
                    proc[start.jobs[listing[k].id].process] = "exited"
        /\ DOMAIN jobs = DOMAIN start.jobs \ ReportedDone
        /\ \A id \in DOMAIN jobs : jobs[id] = start.jobs[id]
        /\ pc = "prompt" => Len(listing) = Cardinality(DOMAIN start.jobs)

\* The line a step of the loop prints tells whether the process is alive now.
JobsPollStep ==
    (pc = "jobs_iter" /\ Len(listing') = Len(listing) + 1) =>
        LET e == listing'[Len(listing')]
        IN  e.status = IF proc[start.jobs[e.id].process] = "exited"
                       THEN "Done" ELSE "Running"

\* C8: `jobs` lists every Job of the table exactly once, in table order,
\* Running when the process is alive at the poll and Done when it has exited;
\* it removes exactly the jobs it reported Done, leaves the others with the
\* same id, command text and status, and does not change the next job id.
Thm_C8_JobsListsAndReaps == []JobsListingSound /\ [][JobsPollStep]_vars

\* `jobs` has returned after listing job 1 as Done (removed) and job 2 as
\* Running (kept).
Wit_C8_OneDoneOneRunning ==
    /\ pc = "prompt"
    /\ IsJobsLine(start.line)
    /\ Len(listing) = 2
    /\ listing[1].status = "Done"
    /\ listing[2].status = "Running"
    /\ DOMAIN jobs = { 2 }

\* ---------------------------------------------------------------- C9
\* A second `jobs` directly after a first one has returned.
SecondJobsDone == consecutive /\ IsJobsLine(start.line) /\ pc = "prompt"

InListing(l, e) == \E k \in 1 .. Len(l) : l[k] = e
IdInListing(l, id) == \E k \in 1 .. Len(l) : l[k].id = id

\* The process of a job of the first listing has finished by the end of the
\* second call (read widely: whenever it finished).
FinishedBetween(e) == proc[ProcessOf(e.id)] = "exited"

\* C9 as stated: the two listings are the same, except that a job whose
\* process finished between the calls is absent from the second (and was in
\* the first).
CE_C9_JobsTwiceSame ==
    SecondJobsDone =>
        /\ \A k \in 1 .. Len(prevListing) :
              \/ InListing(listing, prevListing[k])
              \/ /\ FinishedBetween(prevListing[k])
                 /\ ~IdInListing(listing, prevListing[k].id)
        /\ \A k \in 1 .. Len(listing) : InListing(prevListing, listing[k])

IsRunningLine(e) == e.status = "Running"

\* C9 amended: the second listing holds exactly the jobs the first call
\* reported Running, in the same order and with the same id and command text;
\* each is Running again, or Done when its process has exited (a job that
\* finished between the calls is listed Done by the second call, not left
\* out); the jobs the first call reported Done are not in the second listing.
Thm_C9_SecondListsFirstsRunning ==
    SecondJobsDone =>
        LET run1 == SelectSeq(prevListing, IsRunningLine)
        IN  /\ Len(listing) = Len(run1)
            /\ \A k \in 1 .. Len(listing) :
                  /\ listing[k].id = run1[k].id
                  /\ listing[k].command = run1[k].command
                  /\ listing[k].status \in { "Running", "Done" }
                  /\ listing[k].status = "Done" =>
                        proc[ProcessOf(listing[k].id)] = "exited"
            /\ \A k \in 1 .. Len(prevListing) :
                  prevListing[k].status = "Done" =>
                      ~IdInListing(listing, prevListing[k].id)

\* The first call listed job 1 Done and job 2 Running; job 2 finished and the
\* second call lists it, as Done.
Wit_C9_FinishedBetween ==
    /\ SecondJobsDone
    /\ Len(prevListing) = 2
    /\ prevListing[1].status = "Done"
    /\ prevListing[2].status = "Running"
    /\ Len(listing) = 1
    /\ listing[1].id = 2
    /\ listing[1].status = "Done"

\* --------------------------------------------------------------- C10
\* C10: wherever SIGTSTP is delivered (also between the read of next_job_id
\* and its increment, and inside the `jobs` loop), no two registrations get
\* the same id, and every registered Job is still in the table with the
\* process it was registered with unless `jobs` or `fg` removed it.
Thm_C10_HandlerNeverInterleaves ==
    /\ \A i, k \in 1 .. Len(registered) :
          i # k => registered[i].id # registered[k].id
    /\ \A i \in 1 .. Len(registered) :
          IF registered[i].id \in DOMAIN jobs
          THEN jobs[registered[i].id].process = registered[i].process
          ELSE registered[i].id \in removed

\* SIGTSTP came between line 838 and line 839 of the dispatch that has now
\* registered the second background job.
Wit_C10_SignalMidRegistration ==
    /\ sigAt = "bg_idread"
    /\ pc = "bg_registered"
    /\ Len(registered) = 2
    /\ DOMAIN jobs = { 1, 2 }

\* --------------------------------------------------------------- C11
\* Token i of a line typed without quotes names the command of a stage.
StageHead(line, i) == i = 1 \/ line[i - 1] = "|"

\* The line dispatched last reached the launcher with a command the OS
\* cannot launch.
LaunchFailed ==
    /\ start.line # NoCommand
    /\ command_name(start.line) \notin Builtins
    /\ ~MissingTarget(start.line)
    /\ \E i \in 1 .. Len(start.line) :
          /\ StageHead(start.line, i)
          /\ i <= Len(BgParts(start.line)) \/ ~EndsWithAmp(start.line)
          /\ start.line[i] \notin Executables \cup RedirOps

\* C11: a command that cannot be launched (single-stage foreground,
\* background, or a stage of a pipeline) is reported with a message and the
\* session goes on: the shell is never terminated by it.
CE_C11_LaunchFailureReported ==
    LaunchFailed =>
        /\ pc # "crashed"
        /\ msg \in { "command not found", "Error executing command" }

\* --------------------------------------------------------------- C12
\* The text of the line dispatched last has a quote that is never closed.
UnbalancedQuoting == typed # NoCommand /\ ~shlex_split(typed).ok

\* C12: a line with unbalanced quoting aborts only that line: the session
\* is not terminated, no process is launched, and the Job Table and the next
\* Job identifier are what they were when the line was read.
CE_C12_UnbalancedQuoteAbortsLine ==
    UnbalancedQuoting =>
        /\ pc # "crashed"
        /\ Launched = start.launched
        /\ jobs = start.jobs
        /\ next_job_id = start.next_job_id

\* --------------------------------------------------------------- C13
\* The control thread is blocked waiting on the child `process`.
WaitingOnChild == pc \in { "fg_run", "fg_wait", "pipe_wait" }

\* A wait is left although its child has not exited: a keyboard interrupt.
InterruptedWait == WaitingOnChild /\ proc[process] # "exited" /\ pc' # pc

\* C13: a keyboard interrupt during the wait on a child (foreground launch,
\* last stage of a pipeline, fg-resumed job) prints ^C and returns to the
\* prompt, and the shell does not kill or signal the child.
CE_C13_InterruptedWaitReturns ==
    [][ InterruptedWait =>
          /\ pc' = "prompt"
          /\ msg' = "^C"
          /\ proc' = proc
          /\ sent' = sent ]_vars

\* --------------------------------------------------------------- C14
\* Children launched by subprocess.run or as a pipeline stage, and children
\* of Jobs that `fg` or `jobs` took out of the table.
ForegroundProcs ==
    { p \in Pids : io[p].how \in { "run", "stage" } }
        \cup { registered[i].process :
                 i \in { k \in 1 .. Len(registered) :
                            registered[k].id \in removed } }

Tracked(p) == \E id \in DOMAIN jobs : jobs[id].process = p

\* C14: whenever the loop is back at the prompt, every process launched or
\* waited on in the foreground has exited or is held by a Job of the table,
\* and the foreground-process reference is empty.
CE_C14_NothingLeftInForeground ==
    pc = "prompt" =>
        /\ \A p \in ForegroundProcs : proc[p] = "exited" \/ Tracked(p)
        /\ foreground_process \in { Unset, None }

\* --------------------------------------------------------------- C15
\* The line dispatched last holds a pipe operator and reached the pipeline
\* code.
PipelineDispatched == typed # NoCommand /\ typed \in LaunchLines
                          /\ ReachesPipeline(typed)

\* The children the current / last dispatch launched.
LaunchedByDispatch == Launched \ start.launched

\* C15: a pipeline dispatch is back at the prompt only after the process of
\* every stage has exited, and it never registers a Job.
CE_C15_PipelineRunsToCompletion ==
    PipelineDispatched =>
        /\ pc = "prompt" => \A p \in LaunchedByDispatch : proc[p] = "exited"
        /\ jobs = start.jobs
        /\ next_job_id = start.next_job_id

\* --------------------------------------------------------------- C16
\* Number of '|' of a text that stand outside quotes.
RECURSIVE CountPipes(_, _, _)
CountPipes(text, i, quote) ==
    IF i > Len(text) THEN 0
    ELSE IF quote # NoQuote
         THEN CountPipes(text, i + 1, IF text[i] = quote THEN NoQuote ELSE quote)
         ELSE IF text[i] \in QuoteChars THEN CountPipes(text, i + 1, text[i])
         ELSE (IF text[i] = "|" THEN 1 ELSE 0) + CountPipes(text, i + 1, NoQuote)
UnquotedPipes(text) == CountPipes(text, 1, NoQuote)

\* The line dispatched last holds a '|', names no built-in, and every
\* command of it (the first token and each token after a pipe operator) is
\* a program the OS can launch.
LaunchablePipeText ==
    /\ PipelineDispatched
    /\ \A i \in 1 .. Len(start.line) :
          StageHead(start.line, i) => start.line[i] \in Executables

\* C16: a line with N unquoted pipe operators launches exactly N+1 stages,
\* left to right; the output of stage i is the input of stage i+1, the first
\* stage's input and the last stage's output are inherited from the shell.
\* A '|' inside quotes is part of a word and counts for nothing.
CE_C16_StagesPerUnquotedPipe ==
    LaunchablePipeText =>
        LET n == UnquotedPipes(typed)
            first == Cardinality(start.launched) + 1
        IN  /\ LaunchedByDispatch = first .. (first + n)
            /\ \A k \in 0 .. n :
                  /\ io[first + k].stdin = IF k = 0 THEN None ELSE first + k - 1
                  /\ io[first + k].stdout = IF k < n THEN "PIPE" ELSE "inherit"

\* --------------------------------------------------------------- C17
\* The four redirection operators, as the line is read.
IsRedirOp(tok) == tok \in { ">", ">>", "2>", "&>" }

\* What a dispatch that aborts leaves behind: no child, the files and the
\* Job Table as they were, no open handle.
NothingDone ==
    /\ LaunchedByDispatch = {}
    /\ files = start.files
    /\ jobs = start.jobs
    /\ next_job_id = start.next_job_id
    /\ handles = {}

\* C17 as stated: a redirection operator that is the last token of the
\* line aborts the command; nothing is launched, no file is created or
\* truncated, no Job is registered, no handle stays open.
CE_C17_TrailingOperatorAborts ==
    (start.line # NoCommand /\ IsRedirOp(start.line[Len(start.line)]))
        => NothingDone

\* The first redirection operator of the line dispatched last is its last
\* token, and the line holds no pipe.
FirstOperatorIsLast ==
    /\ start.line # NoCommand
    /\ ~RawHasPipe(typed)
    /\ IsRedirOp(start.line[Len(start.line)])
    /\ \A i \in 1 .. (Len(start.line) - 1) : ~IsRedirOp(start.line[i])

\* C17, amended: when the first redirection operator of a single-stage
\* line is its last token, nothing is launched, no file is created or
\* truncated, no Job is registered and no handle stays open.
Thm_C17_FirstOperatorLastAborts == FirstOperatorIsLast => NothingDone

\* `prog >` typed while out.txt holds a line of output: the file is kept.
Wit_C17_MissingTargetKeepsFile ==
    /\ pc = "prompt"
    /\ start.line = <<"prog", ">">>
    /\ msg = "Error: No file specified"
    /\ "out.txt" \in DOMAIN files
    /\ files["out.txt"] = <<"prog">>

\* --------------------------------------------------------------- C18
\* C18: once a dispatch has returned to the prompt or has failed, on every
\* exit path (the child exited, command not found, another launch error, a
\* keyboard interrupt during the wait), no redirection file handle is open.
Thm_C18_RedirectionHandlesClosed ==
    pc \in { "prompt", "crashed", "exited" } => handles = {}

\* `prog > out.txt` was interrupted during the wait of subprocess.run: the
\* file was opened by the scan and the session ended with it closed.
Wit_C18_ClosedAfterInterrupt ==
    /\ pc = "crashed"
    /\ msg = "KeyboardInterrupt"
    /\ start.line = <<"prog", ">", "out.txt">>
    /\ "out.txt" \in DOMAIN files
    /\ "out.txt" \notin DOMAIN start.files
    /\ handles = {}

\* --------------------------------------------------------------- C19
\* C19: after `echo hello > out.txt` the file out.txt holds exactly the line
\* hello and nothing was printed on the terminal (also when the file held
\* hello before); after `echo world >> out.txt` on that file it holds the
\* lines hello and world.
CE_C19_EchoRedirected ==
    /\ (pc = "prompt" /\ start.line = <<"echo", "hello", ">", "out.txt">>)
          => /\ "out.txt" \in DOMAIN files
             /\ files["out.txt"] = <<"hello">>
             /\ msg = ""
    /\ (/\ pc = "prompt"
        /\ start.line = <<"echo", "world", ">>", "out.txt">>
        /\ "out.txt" \in DOMAIN start.files
        /\ start.files["out.txt"] = <<"hello">>)
          => files["out.txt"] = <<"hello", "world">>

\* --------------------------------------------------------------- C20
\* C20: the argument vector of a single-stage foreground launch is the
\* tokens of the line before its first redirection operator (the whole line
\* when it has none); the operator, its target and every later token are not
\* passed, and no file but that one target is opened.
Thm_C20_ArgvStopsAtFirstOperator ==
    \A p \in LaunchedByDispatch :
      (start.line # NoCommand /\ io[p].how = "run") =>
        LET line == start.line
            argv == io[p].argv
            n == Len(io[p].argv)
        IN  /\ n <= Len(line)
            /\ \A i \in 1 .. n : argv[i] = line[i] /\ ~IsRedirOp(line[i])
            /\ IF n = Len(line)
               THEN /\ handles = {}
                    /\ DOMAIN files = DOMAIN start.files
               ELSE /\ IsRedirOp(line[n + 1])
                    /\ n + 2 <= Len(line)
                    /\ handles \subseteq { line[n + 2] }
                    /\ DOMAIN files \subseteq DOMAIN start.files \cup { line[n + 2] }

\* `prog > out.txt 2> err.txt` is running: prog got no argument, out.txt is
\* the one file opened, err.txt does not exist.
Wit_C20_SecondOperatorDropped ==
    /\ pc = "fg_run"
    /\ start.line = <<"prog", ">", "out.txt", "2>", "err.txt">>
    /\ io[process].argv = <<"prog">>
    /\ handles = { "out.txt" }
    /\ DOMAIN files = { "out.txt" }

\* --------------------------------------------------------------- C21
\* A word without the '&' attached to its end.
WithoutAmp(tok) == IF tok = "arg&" THEN "arg" ELSE tok

\* The tokens of a line before its first redirection operator.
BeforeOperator(line) ==
    IF \E i \in 1 .. Len(line) : IsRedirOp(line[i])
    THEN SubSeq(line, 1,
                (CHOOSE i \in 1 .. Len(line) :
                    /\ IsRedirOp(line[i])
                    /\ \A k \in 1 .. (i - 1) : ~IsRedirOp(line[k])) - 1)
    ELSE line

\* The command of a background line: its tokens without the trailing '&',
\* which is a token of its own or the end of the last word.
WithoutTrailingAmp(line) ==
    LET words == BeforeOperator(line)
        n == Len(words)
    IN  IF n = 0 THEN << >>
        ELSE IF words[n] = "&" THEN SubSeq(words, 1, n - 1)
        ELSE [ i \in 1 .. n |-> IF i = n THEN WithoutAmp(words[i]) ELSE words[i] ]

\* The line dispatched last is a single-stage background command.
BackgroundDispatched ==
    /\ start.line # NoCommand
    /\ typed # NoCommand
    /\ ~RawHasPipe(typed)
    /\ command_name(start.line) \notin { "jobs", "fg", "bg", "sleep", "echo" }
    /\ start.line[Len(start.line)] \in { "&", "arg&" }

\* C21: a background command is launched with its tokens minus the trailing
\* '&' and nothing else, its Job carries that text, and a process is launched
\* whenever a token (naming a program the OS can launch) remains; also for
\* `prog arg&` and for `prog arg > out.txt &`.
CE_C21_OnlyAmpersandStripped ==
    BackgroundDispatched =>
        LET expected == WithoutTrailingAmp(start.line)
        IN  /\ \A p \in LaunchedByDispatch : io[p].argv = expected
            /\ \A i \in 1 .. Len(registered) :
                  (registered[i].process \in LaunchedByDispatch
                      /\ registered[i].id \in DOMAIN jobs)
                    => jobs[registered[i].id].command = expected
            /\ (expected # << >> /\ expected[1] \in { "prog" })
                  => LaunchedByDispatch # {}

\* --------------------------------------------------------------- C22
\* The background command dispatched last launched no process: its program
\* was not found or could not be started, or no token was left to launch.
BackgroundFailed ==
    /\ BackgroundDispatched
    /\ pc = "prompt"
    /\ LaunchedByDispatch = {}

\* C22: a background dispatch that launches nothing registers no Job and
\* consumes no job id: the Job Table and the next id are as they were before
\* it, so the ids of the background Jobs of a session are 1, 2, 3, ... in the
\* order of their registration, failed dispatches in between or not.
Thm_C22_FailedBackgroundKeepsId ==
    /\ BackgroundFailed =>
          /\ jobs = start.jobs
          /\ next_job_id = start.next_job_id
    /\ \A i \in 1 .. Len(registered) :
          registered[i].by = "background" => registered[i].id = i

\* `nosuch &` failed after one background Job was registered: the next id
\* is still 2.
Wit_C22_FailedAfterFirstJob ==
    /\ pc = "prompt"
    /\ start.line = <<"nosuch", "&">>
    /\ msg = "command not found"
    /\ DOMAIN jobs = { 1 }
    /\ next_job_id = 2

====
